---- MODULE Spec2Model ----
(***************************************************************************)
(* Slopify: the track-catalog client (SpotifyAPI, a bearer-token lease     *)
(* refreshed on demand), the video-catalog client (InvidiousAPI, instance  *)
(* selection and the video-fetch retry) and the cog (SlopifyCog: the link  *)
(* pattern, the message listener, the context menu, cross-resolution).     *)
(*                                                                         *)
(* Each coroutine is a process; an action is the code that runs between    *)
(* two suspension points (an await of the HTTP session).                   *)
(***************************************************************************)
EXTENDS Integers, Sequences, FiniteSets, TLC

(***************************************************************************)
(* Bounds of the model.                                                    *)
(***************************************************************************)
\* Clock ticks per minute: the resolution of the model's clock.
Minute == 2
\* The clock stops ticking at DatetimeMin + 1 + MaxTime.
MaxTime == 3
\* Track-catalog calls started in one behaviour.
MaxCalls == 3
\* Entries of the instance registry.
MaxRegistry == 2
\* Calls of InvidiousAPI.load in one behaviour.
MaxLoads == 2
\* Video-catalog calls started in one behaviour.
MaxVCalls == 2

\* datetime.datetime.min, the expiry of the initial lease.
DatetimeMin == 0

None == "None"

\* Coroutines that may run track-catalog calls concurrently.
Slots == {"c1", "c2"}
\* Bearer tokens the token endpoint hands out.
Tokens == {"tokA", "tokB"}
\* Lifetimes (expires_in) the token endpoint reports, in ticks: one that puts
\* the new lease exactly on the margin, and two beyond it.
ExpiresInValues == {Minute, Minute + 1, Minute + 2}

SpotifyOps == {"fetch_track_data", "search_for"}
SpotifyArgs == [fetch_track_data |-> {"trk1"}, search_for |-> {"q1"}]

\* Instances of the video catalog.
Hosts == {"https://inv-a", "https://inv-b"}
\* What InvidiousAPI is constructed with: nothing, the empty string, an instance.
CtorArgs == {None, ""} \cup Hosts
VideoIds == {"vidX", "vidY"}
VideoQueries == {"q1"}

VARIABLES
    now,          \* datetime.datetime.now()
    token,        \* SpotifyAPI._token
    expiresAt,    \* SpotifyAPI._token_expires_at
    call,         \* per slot: the track-catalog call it runs (or ran last)
    ncalls,       \* track-catalog calls started so far
    last401,      \* a call ended in a 401 and no call has started since
    granted,      \* the grant of the exchange that was answered with one last
    ctor,         \* the host_url argument InvidiousAPI was constructed with
    host_url,     \* InvidiousAPI.host_url
    registry,     \* what https://api.invidious.io/instances.json holds
    load,         \* the coroutine running InvidiousAPI.load
    pass,         \* the selection pass of find_best_host: what it asked for
    nloads,       \* calls of load so far
    vcall,        \* the video-catalog call in progress (or the last one)
    nvcalls,      \* video-catalog calls started so far
    message,      \* the discord.Message the cog's handler was given
    task          \* the coroutine running a handler of the cog (or the last one)

spotifyVars == <<now, token, expiresAt, call, ncalls, last401, granted>>
invidiousVars == <<ctor, host_url, registry, load, pass, nloads, vcall, nvcalls>>

cogVars == <<message, task>>

vars == <<spotifyVars, invidiousVars, cogVars>>

(***************************************************************************)
(* SpotifyAPI: pure parts.                                                 *)
(***************************************************************************)

\* Mutants of the guard: a margin of two minutes, and a lease that is exactly
\* a minute ahead taken for good.
IsFresh_WiderMargin(exp, t) == exp > t + 2 * Minute

IsFresh_AtMargin(exp, t) == exp >= t + Minute

\* update_spotify_token's guard: the lease is still good for more than a minute.
IsFresh(exp, t) == exp > t + Minute

\* Answers of the token endpoint: a grant, the invalid-client error, a
\* transport failure, and bodies that lack one of the grant's two fields.
ExchangeResponses ==
    [kind : {"ok"}, access_token : Tokens, expires_in : ExpiresInValues]
        \cup [kind : {"no_expires_in"}, access_token : Tokens, expires_in : {0}]
        \cup [kind : {"invalid_client", "transport", "no_access_token"},
              access_token : {None}, expires_in : {0}]

\* No grant yet.
NoGrant == [access_token |-> None, expiresAt |-> DatetimeMin]

\* Mutant: a grant that arrives when the lease has been refreshed meanwhile
\* is dropped.
ApplyExchange_FirstWins(tok, exp, resp, t) ==
    IF resp.kind = "ok"
    THEN IF exp > t + Minute
         THEN [token |-> tok, expiresAt |-> exp, raised |-> None]
         ELSE [token |-> resp.access_token, expiresAt |-> t + resp.expires_in,
               raised |-> None]
    ELSE IF resp.kind = "no_expires_in"
    THEN [token |-> resp.access_token, expiresAt |-> exp, raised |-> "KeyError"]
    ELSE [token |-> tok, expiresAt |-> exp,
          raised |-> IF resp.kind = "transport" THEN "ClientError"
                     ELSE IF resp.kind = "invalid_client"
                     THEN "ValueError: invalid client" ELSE "KeyError"]

\* Mutant: the invalid-client answer also throws the lease away.
ApplyExchange_DropsLease(tok, exp, resp, t) ==
    IF resp.kind = "invalid_client"
    THEN [token |-> None, expiresAt |-> DatetimeMin, raised |-> "ValueError: invalid client"]
    ELSE IF resp.kind \in {"transport", "no_access_token"}
    THEN [token |-> tok, expiresAt |-> exp,
          raised |-> IF resp.kind = "transport" THEN "ClientError" ELSE "KeyError"]
    ELSE IF resp.kind = "no_expires_in"
    THEN [token |-> resp.access_token, expiresAt |-> exp, raised |-> "KeyError"]
    ELSE [token |-> resp.access_token, expiresAt |-> t + resp.expires_in,
          raised |-> None]

\* The body of update_spotify_token's `async with`: what the lease becomes and
\* what is raised, given the answer and the clock when it is handled.
ApplyExchange(tok, exp, resp, t) ==
    CASE resp.kind = "transport" ->
            [token |-> tok, expiresAt |-> exp, raised |-> "ClientError"]
      [] resp.kind = "invalid_client" ->
            [token |-> tok, expiresAt |-> exp, raised |-> "ValueError: invalid client"]
      [] resp.kind = "no_access_token" ->
            [token |-> tok, expiresAt |-> exp, raised |-> "KeyError"]
      [] resp.kind = "no_expires_in" ->
            \* the token is stored before expires_in is looked up
            [token |-> resp.access_token, expiresAt |-> exp, raised |-> "KeyError"]
      [] OTHER ->
            [token |-> resp.access_token, expiresAt |-> t + resp.expires_in,
             raised |-> None]

\* Mutant: the header is built once and kept.
AuthHeader_Kept(tok) == IF tok = None THEN None ELSE "tokA"

\* The _auth_header property: the bearer value sent, or None when it raises.
AuthHeader(tok) == IF tok = None THEN None ELSE tok

\* Statuses the catalog endpoints answer with, and a transport failure.
CatalogStatuses == {"200", "401", "500", "transport"}

\* fetch_track_data / search_for after the response arrived.
CatalogResult(status) ==
    CASE status = "transport" -> "ClientError"
      [] status = "401" -> "BadResponseError: invalid token"
      [] status # "200" -> "BadResponseError"
      [] OTHER -> "ok"

\* A call: where it is (pc) and what it returned or raised (result), and its
\* history: how the lease stood when it started (startFresh: expiresAt more
\* than a minute ahead; startEdge: exactly a minute ahead), whether it follows
\* a 401, its requests to the token endpoint (posts) and the catalog (gets),
\* the token endpoint's answer, the bearer it sent and the lease's token then.
IdleCall ==
    [pc |-> "idle", op |-> None, arg |-> None, startFresh |-> FALSE,
     startEdge |-> FALSE, after401 |-> FALSE, posts |-> 0, answer |-> None,
     exchanged |-> FALSE, gets |-> 0, bearer |-> None, leaseAtIssue |-> None,
     result |-> None]

(***************************************************************************)
(* SpotifyAPI: actions.                                                    *)
(***************************************************************************)

\* The request of fetch_track_data / search_for: read the header, then issue
\* the GET; the header raising ends the call.
IssueCatalog(c, rec) ==
    IF AuthHeader(token) = None
    THEN call' = [call EXCEPT ![c] = [rec EXCEPT !.pc = "idle",
                                               !.result = "ValueError: no token"]]
    ELSE call' = [call EXCEPT ![c] = [rec EXCEPT !.pc = "catalog_wait",
                                               !.gets = @ + 1,
                                               !.bearer = AuthHeader(token),
                                               !.leaseAtIssue = token]]

\* A coroutine calls fetch_track_data or search_for: update_spotify_token up to
\* its first suspension (the POST), or through to the catalog GET when the
\* lease is fresh.
CallStart(c, op, arg) ==
    /\ call[c].pc = "idle"
    /\ ncalls < MaxCalls
    /\ LET rec == [IdleCall EXCEPT !.op = op, !.arg = arg,
                                   !.startFresh = (expiresAt > now + Minute),
                                   !.startEdge = (expiresAt = now + Minute),
                                   !.after401 = last401]
       IN  IF IsFresh(expiresAt, now)
           THEN IssueCatalog(c, rec)
           ELSE call' = [call EXCEPT ![c] = [rec EXCEPT !.pc = "token_wait",
                                                      !.posts = @ + 1]]
    /\ ncalls' = ncalls + 1
    /\ last401' = FALSE
    /\ UNCHANGED <<now, token, expiresAt, granted>>
    /\ UNCHANGED <<invidiousVars, cogVars>>

\* The token endpoint answers (or the transport fails): the rest of the
\* `async with` of update_spotify_token.
ExchangeResponse(c) ==
    /\ call[c].pc = "token_wait"
    /\ \E resp \in ExchangeResponses :
          LET r == ApplyExchange(token, expiresAt, resp, now)
          IN  /\ token' = r.token
              /\ expiresAt' = r.expiresAt
              /\ call' = [call EXCEPT ![c] =
                    [@ EXCEPT !.pc = IF r.raised = None THEN "token_done" ELSE "idle",
                              !.answer = resp.kind,
                              !.exchanged = (r.raised = None),
                              !.result = r.raised]]
              /\ granted' = IF resp.kind = "ok"
                            THEN [access_token |-> resp.access_token,
                                  expiresAt |-> now + resp.expires_in]
                            ELSE granted
    /\ UNCHANGED <<now, ncalls, last401>>
    /\ UNCHANGED <<invidiousVars, cogVars>>

\* update_spotify_token has returned to fetch_track_data / search_for (leaving
\* the `async with` is a suspension point): the catalog request.
CatalogRequest(c) ==
    /\ call[c].pc = "token_done"
    /\ IssueCatalog(c, call[c])
    /\ UNCHANGED <<now, token, expiresAt, ncalls, last401, granted>>
    /\ UNCHANGED <<invidiousVars, cogVars>>

\* Mutant: a failed catalog request is issued once more.
CatalogResponse_Retry(c) ==
    /\ call[c].pc = "catalog_wait"
    /\ \E status \in CatalogStatuses :
          IF status # "200" /\ call[c].gets < 2
          THEN /\ call' = [call EXCEPT ![c] = [@ EXCEPT !.gets = @ + 1]]
               /\ UNCHANGED last401
          ELSE /\ call' = [call EXCEPT ![c] = [@ EXCEPT !.pc = "idle",
                                                        !.result = CatalogResult(status)]]
               /\ last401' = (status = "401")
    /\ UNCHANGED <<now, token, expiresAt, ncalls, granted>>
    /\ UNCHANGED <<invidiousVars, cogVars>>

\* The catalog answers (or the transport fails): the call ends.
CatalogResponse(c) ==
    /\ call[c].pc = "catalog_wait"
    /\ \E status \in CatalogStatuses :
          /\ call' = [call EXCEPT ![c] = [@ EXCEPT !.pc = "idle",
                                                   !.result = CatalogResult(status)]]
          /\ last401' = (status = "401")
    /\ UNCHANGED <<now, token, expiresAt, ncalls, granted>>
    /\ UNCHANGED <<invidiousVars, cogVars>>

\* Time passes.
Tick ==
    /\ now < DatetimeMin + 1 + MaxTime
    /\ now' = now + 1
    /\ UNCHANGED <<token, expiresAt, call, ncalls, last401, granted>>
    /\ UNCHANGED <<invidiousVars, cogVars>>

\* SpotifyAPI.__init__
SpotifyIdle ==
    /\ now = DatetimeMin + 1
    /\ token = None
    /\ expiresAt = DatetimeMin
    /\ call = [c \in Slots |-> IdleCall]
    /\ ncalls = 0
    /\ last401 = FALSE
    /\ granted = NoGrant

SpotifyNext ==
    \/ \E c \in Slots, op \in SpotifyOps : \E arg \in SpotifyArgs[op] : CallStart(c, op, arg)
    \/ \E c \in Slots : ExchangeResponse(c)
    \/ \E c \in Slots : CatalogRequest(c)
    \/ \E c \in Slots : CatalogResponse(c)
    \/ Tick

(***************************************************************************)
(* InvidiousAPI: pure parts.                                               *)
(***************************************************************************)

\* InvidiousAPI.__init__: URL(host_url) if host_url else None
Construct(arg) == IF arg = None \/ arg = "" THEN None ELSE arg

\* Descriptors the registry may hold: a usable one per instance, and one for
\* each way a descriptor fails the filter of find_best_host.
RegistryEntries ==
    {[uri |-> h, stats |-> "stats", api |-> TRUE, type |-> "https"] : h \in Hosts}
        \cup {[uri |-> "https://inv-a", stats |-> None, api |-> TRUE, type |-> "https"],
              [uri |-> "https://inv-a", stats |-> "stats", api |-> FALSE, type |-> "https"],
              [uri |-> "https://inv-a", stats |-> "stats", api |-> TRUE, type |-> "onion"],
              [uri |-> "", stats |-> "stats", api |-> TRUE, type |-> "https"]}

Registries == UNION {[1..n -> RegistryEntries] : n \in 0..MaxRegistry}

\* Mutant: the filter does not look at the descriptor's type.
Viable_AnyType(instance) ==
    /\ instance.stats # None
    /\ instance.api
    /\ instance.uri # ""

\* The condition of the list comprehension of find_best_host.  A member the
\* descriptor lacks is read with .get: it counts as None.
Viable(instance) ==
    /\ instance.stats # None
    /\ instance.api
    /\ instance.type = "https"
    /\ instance.uri # ""

\* `host_url or self.host_url`
UrlOr(override, own) == IF override # None THEN override ELSE own

\* yarl's URL / path: a path that starts with a slash is refused with a
\* ValueError.  A path is the sequence of its segments, "" first when the
\* path starts with a slash.
Div(url, segments) ==
    IF segments # <<>> /\ segments[1] = ""
    THEN [raised |-> "ValueError: path", host |-> url, path |-> <<>>, query |-> <<>>]
    ELSE [raised |-> None, host |-> url, path |-> segments, query |-> <<>>]

\* The path get_video appends: a plain string literal, so no id is put in it.
VideoPath(video_id) == <<"", "api", "v1", "videos", "{video_id}">>

\* The URL search_for requests.
SearchTarget(url, query) ==
    [Div(url, <<"api", "v1", "search">>) EXCEPT
        !.query = <<<<"q", query>>, <<"sort_by", "relevance">>, <<"type", "video">>>>]

\* What the search endpoint may answer, and what search_for makes of it.
SearchOutcomes == {"ok", "not_ok", "transport"}

SearchResult(outcome) ==
    CASE outcome = "transport" -> "ClientError"
      [] outcome = "not_ok" -> "BadResponseError"
      [] OTHER -> "ok"

\* The except clause of find_best_host.
Caught(result) == result \in {"BadResponseError", "ClientError"}

\* What the video endpoint may answer to one attempt: the record, a body with
\* an "error" member, a transport failure.
VideoOutcomes == {"ok", "error_body", "transport"}

\* The answers the instance would give to the attempts of one get_video call.
\* The second answer matters only after an error body.
Scripts == {s \in [1..2 -> VideoOutcomes] : s[1] # "error_body" => s[2] = "ok"}

\* adaptiveFormats of the videos get_audio_url is called with.
AdaptiveFormats ==
    [vidX |-> <<[type |-> <<"audio", "webm">>, bitrate |-> 128, itag |-> "251"],
                [type |-> <<"audio", "mp4">>, bitrate |-> 256, itag |-> "140"],
                [type |-> <<"video", "mp4">>, bitrate |-> 1000, itag |-> "137"]>>,
     vidY |-> <<[type |-> <<"audio", "mp4">>, bitrate |-> 128, itag |-> "140"],
                [type |-> <<"audio", "webm">>, bitrate |-> 128, itag |-> "251"]>>,
     vidZ |-> <<[type |-> <<"video", "mp4">>, bitrate |-> 1000, itag |-> "137"]>>,
     vidW |-> <<[type |-> <<"video", "webm">>, bitrate |-> 2000, itag |-> "248"],
                [type |-> <<"audio", "mp4">>, bitrate |-> 256, itag |-> "140"],
                [type |-> <<"audio", "webm">>, bitrate |-> 64, itag |-> "249"],
                [type |-> <<"audio", "webm">>, bitrate |-> 256, itag |-> "251"]>>,
     vidV |-> <<>>]

\* frmt["type"].startswith("audio/")
IsAudio(frmt) == frmt.type[1] = "audio"

\* Mutant: of the formats of greatest bitrate the last one is taken.
BestAudio_LastOfTies(formats) ==
    LET audio == SelectSeq(formats, IsAudio)
    IN  IF audio = <<>>
        THEN None
        ELSE LET i == CHOOSE k \in 1..Len(audio) :
                          /\ \A j \in 1..Len(audio) : audio[j].bitrate <= audio[k].bitrate
                          /\ \A j \in (k + 1)..Len(audio) : audio[j].bitrate < audio[k].bitrate
             IN  audio[i].itag

\* max(audio formats, key=bitrate): the first format of greatest bitrate, or
\* None where max raises on an empty sequence.
BestAudio(formats) ==
    LET audio == SelectSeq(formats, IsAudio)
    IN  IF audio = <<>>
        THEN None
        ELSE LET i == CHOOSE k \in 1..Len(audio) :
                          /\ \A j \in 1..Len(audio) : audio[j].bitrate <= audio[k].bitrate
                          /\ \A j \in 1..(k - 1) : audio[j].bitrate < audio[k].bitrate
             IN  audio[i].itag

\* The URL get_audio_url requests.
AudioTarget(url, video_id, itag) ==
    [Div(url, <<"latest_version">>) EXCEPT
        !.query = <<<<"id", video_id>>, <<"itag", itag>>, <<"local", "true">>>>]

IdleLoad == [pc |-> "idle", instances_list |-> <<>>, candidate |-> None, result |-> None]

NoPass == [gets |-> 0, filtered |-> <<>>, probes |-> <<>>]

IdleVCall ==
    [pc |-> "idle", op |-> None, arg |-> None, override |-> None, url |-> None,
     script |-> <<>>, attempts |-> 0, requests |-> <<>>, result |-> None, data |-> None]

(***************************************************************************)
(* InvidiousAPI: load and find_best_host.                                  *)
(***************************************************************************)

\* Mutant: the candidates are taken from the end of the list.
SelectNext_FromEnd(list) ==
    IF list # <<>>
    THEN load' = [load EXCEPT !.pc = "probe_wait",
                              !.candidate = list[Len(list)].uri,
                              !.instances_list = SubSeq(list, 1, Len(list) - 1)]
    ELSE load' = [load EXCEPT !.pc = "idle", !.instances_list = <<>>,
                              !.candidate = None, !.result = "RuntimeError"]

\* The while loop of find_best_host from its test to the next suspension: the
\* probe of the next candidate, or the RuntimeError when none is left.
SelectNext(list) ==
    IF list # <<>>
    THEN load' = [load EXCEPT !.pc = "probe_wait",
                              !.candidate = Head(list).uri,
                              !.instances_list = Tail(list)]
    ELSE load' = [IdleLoad EXCEPT !.result = "RuntimeError"]

\* Mutant: load selects an instance whatever host_url holds.
LoadStart_AlwaysSelects ==
    /\ load.pc = "idle"
    /\ vcall.pc = "idle"
    /\ nloads < MaxLoads
    /\ nloads' = nloads + 1
    /\ load' = [load EXCEPT !.pc = "registry_wait", !.result = None]
    /\ pass' = [gets |-> pass.gets + 1, filtered |-> <<>>, probes |-> <<>>]
    /\ UNCHANGED <<ctor, host_url, registry, vcall, nvcalls>>
    /\ UNCHANGED <<spotifyVars, cogVars>>

\* load(): nothing to select when host_url is set, else find_best_host up to
\* its request of the registry.
LoadStart ==
    /\ load.pc = "idle"
    /\ vcall.pc = "idle"
    /\ nloads < MaxLoads
    /\ nloads' = nloads + 1
    /\ IF host_url # None
       THEN /\ load' = [IdleLoad EXCEPT !.result = "ok"]
            /\ UNCHANGED pass
       ELSE /\ load' = [IdleLoad EXCEPT !.pc = "registry_wait"]
            /\ pass' = [gets |-> pass.gets + 1, filtered |-> <<>>, probes |-> <<>>]
    /\ UNCHANGED <<ctor, host_url, registry, vcall, nvcalls>>
    /\ UNCHANGED <<spotifyVars, cogVars>>

\* The registry answers: the filter, then the first probe.
RegistryResponse ==
    /\ load.pc = "registry_wait"
    /\ \E outcome \in {"ok", "transport"} :
          IF outcome = "transport"
          THEN /\ load' = [IdleLoad EXCEPT !.result = "ClientError"]
               /\ UNCHANGED pass
          ELSE LET list == SelectSeq(registry, Viable)
               IN  /\ pass' = [pass EXCEPT !.filtered = [i \in 1..Len(list) |-> list[i].uri]]
                   /\ SelectNext(list)
    /\ UNCHANGED <<ctor, host_url, registry, nloads, vcall, nvcalls>>
    /\ UNCHANGED <<spotifyVars, cogVars>>

\* Mutant: the loop goes on to the next candidate after a probe succeeded.
ProbeResponse_GoesOn ==
    /\ load.pc = "probe_wait"
    /\ \E outcome \in SearchOutcomes :
          LET url == UrlOr(load.candidate, host_url)
              result == SearchResult(outcome)
          IN  /\ pass' = [pass EXCEPT !.probes =
                            Append(@, [host |-> url, outcome |-> outcome])]
              /\ IF result = "ok"
                 THEN /\ host_url' = load.candidate
                      /\ IF load.instances_list # <<>>
                         THEN SelectNext(load.instances_list)
                         ELSE load' = [IdleLoad EXCEPT !.result = "ok"]
                 ELSE /\ UNCHANGED host_url
                      /\ SelectNext(load.instances_list)
    /\ UNCHANGED <<ctor, registry, nloads, vcall, nvcalls>>
    /\ UNCHANGED <<spotifyVars, cogVars>>

\* The canary search of the candidate ends: the candidate is chosen, or the
\* loop goes on.
ProbeResponse ==
    /\ load.pc = "probe_wait"
    /\ \E outcome \in SearchOutcomes :
          LET url == UrlOr(load.candidate, host_url)
              result == SearchResult(outcome)
          IN  /\ pass' = [pass EXCEPT !.probes =
                            Append(@, [host |-> url, outcome |-> outcome])]
              /\ IF result = "ok"
                 THEN /\ host_url' = load.candidate
                      /\ load' = [IdleLoad EXCEPT !.result = "ok"]
                 ELSE /\ UNCHANGED host_url
                      /\ IF Caught(result)
                         THEN SelectNext(load.instances_list)
                         ELSE load' = [IdleLoad EXCEPT !.result = result]
    /\ UNCHANGED <<ctor, registry, nloads, vcall, nvcalls>>
    /\ UNCHANGED <<spotifyVars, cogVars>>

(***************************************************************************)
(* InvidiousAPI: get_video, search_for, get_audio_url.                     *)
(***************************************************************************)

Overrides == {None} \cup Hosts

\* One run of get_video's inner(), up to its suspension: the request, or the
\* exception of building its URL.
Inner(rec) ==
    LET target == Div(rec.url, VideoPath(rec.arg))
    IN  IF target.raised # None
        THEN [rec EXCEPT !.pc = "idle", !.result = target.raised]
        ELSE [rec EXCEPT !.pc = "video_wait",
                         !.attempts = @ + 1,
                         !.requests = Append(@, target)]

\* get_video once an attempt's answer has arrived: the record is returned, a
\* BadResponseError of the first run is caught and inner() run again, any
\* other exception leaves get_video.
AfterAttempt(rec, outcome) ==
    CASE outcome = "transport" ->
            [rec EXCEPT !.pc = "idle", !.result = "ClientError"]
      [] outcome = "error_body" ->
            IF rec.attempts = 1
            THEN Inner(rec)
            ELSE [rec EXCEPT !.pc = "idle", !.result = "BadResponseError"]
      [] OTHER ->
            LET path == rec.requests[Len(rec.requests)].path
            IN  [rec EXCEPT !.pc = "idle", !.result = "ok", !.data = path[Len(path)]]

\* get_audio_url after the response arrived.
AudioResult(outcome) ==
    CASE outcome = "transport" -> "ClientError"
      [] outcome = "not_ok" -> "BadResponseError"
      [] OTHER -> "ok"

VCallGuard ==
    /\ load.pc = "idle"
    /\ vcall.pc = "idle"
    /\ nvcalls < MaxVCalls

\* get_video(video_id, host_url=override), up to its first suspension.
GetVideo(video_id, override, script) ==
    /\ VCallGuard
    /\    LET rec == [IdleVCall EXCEPT !.op = "get_video", !.arg = video_id,
                                       !.override = override, !.script = script,
                                       !.url = UrlOr(override, host_url)]
          IN  IF rec.url = None
              THEN vcall' = [rec EXCEPT !.result = "ValueError: no host"]
              ELSE vcall' = Inner(rec)
    /\ nvcalls' = nvcalls + 1
    /\ UNCHANGED <<ctor, host_url, registry, load, pass, nloads>>
    /\ UNCHANGED <<spotifyVars, cogVars>>

\* search_for(query, host_url=override), up to its suspension.
SearchFor(query, override) ==
    /\ VCallGuard
    /\    LET rec == [IdleVCall EXCEPT !.op = "search_for", !.arg = query,
                                       !.override = override,
                                       !.url = UrlOr(override, host_url)]
          IN  IF rec.url = None
              THEN vcall' = [rec EXCEPT !.result = "ValueError: no host"]
              ELSE vcall' = [rec EXCEPT !.pc = "search_wait",
                                        !.attempts = 1,
                                        !.requests = <<SearchTarget(rec.url, query)>>]
    /\ nvcalls' = nvcalls + 1
    /\ UNCHANGED <<ctor, host_url, registry, load, pass, nloads>>
    /\ UNCHANGED <<spotifyVars, cogVars>>

\* get_audio_url(video, host_url=override), up to its suspension.
GetAudioUrl(video_id, override) ==
    /\ VCallGuard
    /\    LET rec == [IdleVCall EXCEPT !.op = "get_audio_url", !.arg = video_id,
                                       !.override = override,
                                       !.url = UrlOr(override, host_url)]
              itag == BestAudio(AdaptiveFormats[video_id])
          IN  IF rec.url = None
              THEN vcall' = [rec EXCEPT !.result = "ValueError: no host"]
              ELSE IF itag = None
              THEN vcall' = [rec EXCEPT !.result = "ValueError: max of empty"]
              ELSE vcall' = [rec EXCEPT !.pc = "audio_wait",
                                        !.attempts = 1,
                                        !.requests = <<AudioTarget(rec.url, video_id, itag)>>]
    /\ nvcalls' = nvcalls + 1
    /\ UNCHANGED <<ctor, host_url, registry, load, pass, nloads>>
    /\ UNCHANGED <<spotifyVars, cogVars>>

\* The instance answers the request in flight (or the transport fails).  An
\* attempt of get_video gets the answer its script holds for it.
VResponse ==
    /\ vcall.pc \in {"search_wait", "audio_wait", "video_wait"}
    /\ \E outcome \in SearchOutcomes \cup VideoOutcomes :
          CASE vcall.pc = "search_wait" ->
                  /\ outcome \in SearchOutcomes
                  /\ vcall' = [vcall EXCEPT !.pc = "idle", !.result = SearchResult(outcome)]
            [] vcall.pc = "audio_wait" ->
                  /\ outcome \in SearchOutcomes
                  /\ vcall' = [vcall EXCEPT !.pc = "idle", !.result = AudioResult(outcome)]
            [] OTHER ->
                  /\ outcome = vcall.script[vcall.attempts]
                  /\ vcall' = AfterAttempt(vcall, outcome)
    /\ UNCHANGED <<ctor, host_url, registry, load, pass, nloads, nvcalls>>
    /\ UNCHANGED <<spotifyVars, cogVars>>

InvidiousIdle ==
    /\ load = IdleLoad
    /\ pass = NoPass
    /\ nloads = 0
    /\ vcall = IdleVCall
    /\ nvcalls = 0

InvidiousNext ==
    \/ LoadStart
    \/ RegistryResponse
    \/ ProbeResponse
    \/ \E video_id \in VideoIds, override \in Overrides, script \in Scripts :
          GetVideo(video_id, override, script)
    \/ \E query \in VideoQueries, override \in Overrides : SearchFor(query, override)
    \/ \E video_id \in DOMAIN AdaptiveFormats, override \in Overrides :
          GetAudioUrl(video_id, override)
    \/ VResponse

\* load and find_best_host alone.
SelectionNext ==
    \/ LoadStart
    \/ RegistryResponse
    \/ ProbeResponse

\* One coroutine that uses both clients, a call at a time, while the clock
\* stands still.
ResolverNext ==
    \/ \E op \in SpotifyOps : \E arg \in SpotifyArgs[op] :
          vcall.pc = "idle" /\ CallStart("c1", op, arg)
    \/ ExchangeResponse("c1")
    \/ CatalogRequest("c1")
    \/ CatalogResponse("c1")
    \/ \E video_id \in VideoIds, override \in Overrides, script \in Scripts :
          call["c1"].pc = "idle" /\ GetVideo(video_id, override, script)
    \/ \E query \in VideoQueries, override \in Overrides :
          call["c1"].pc = "idle" /\ SearchFor(query, override)
    \/ \E video_id \in DOMAIN AdaptiveFormats, override \in Overrides :
          call["c1"].pc = "idle" /\ GetAudioUrl(video_id, override)
    \/ VResponse

(***************************************************************************)
(* Text.  A string is the sequence of its atoms: an atom is one character, *)
(* or a run of characters that no operation applied to the string cuts     *)
(* through.  The characters the link pattern and the URL parser look for    *)
(* are atoms of their own.                                                 *)
(***************************************************************************)

\* `https?://`
Schemes == {"https://", "http://"}

\* The atoms that are a single character; every other atom has two or more.
OneChar == {" ", "<", ">", ".", ",", "(", ")", "/", "?", "=", "&", "v"}

\* [^\s<]
InUrl(a) == a \notin {" ", "<"}

\* [^<.,:;"')\]\s]
MayEnd(a) == a \notin {"<", ".", ",", ":", ";", "\"", "'", ")", "]", " "}

StartsWith(s, prefix) ==
    Len(s) >= Len(prefix) /\ SubSeq(s, 1, Len(prefix)) = prefix

EndsWith(s, suffix) ==
    Len(s) >= Len(suffix) /\ SubSeq(s, Len(s) - Len(suffix) + 1, Len(s)) = suffix

\* `sub in s`
Contains(s, sub) ==
    \E i \in 0..(Len(s) - Len(sub)) : SubSeq(s, i + 1, i + Len(sub)) = sub

\* The place of the first atom of s, from `from` on, that is in `set`;
\* Len(s) + 1 when there is none.
First(s, from, set) ==
    LET hits == {i \in from..Len(s) : s[i] \in set}
    IN  IF hits = {} THEN Len(s) + 1 ELSE CHOOSE i \in hits : \A j \in hits : i <= j

\* s.split(sep, maxsplit); Len(s) for maxsplit is as good as no limit.
RECURSIVE Split(_, _, _)
Split(s, sep, maxsplit) ==
    LET i == First(s, 1, {sep})
    IN  IF maxsplit = 0 \/ i > Len(s)
        THEN <<s>>
        ELSE <<SubSeq(s, 1, i - 1)>> \o Split(SubSeq(s, i + 1, Len(s)), sep, maxsplit - 1)

\* sep.join(list)
RECURSIVE Join(_, _)
Join(list, sep) ==
    IF list = <<>> THEN <<>>
    ELSE IF Len(list) = 1 THEN list[1]
    ELSE list[1] \o <<sep>> \o Join(Tail(list), sep)

\* DISCORD_URL_REGEX tried at place s of the text: the place where the match
\* ends, or 0 when there is none.  The pattern is not tried behind a "<";
\* `[^\s<]+` takes all it can and gives back until the last character is one
\* the pattern ends on and no ">" follows.
MatchEnd(text, s) ==
    LET ends == {e \in (s + 1)..Len(text) :
                    /\ \A k \in (s + 1)..e : InUrl(text[k])
                    /\ MayEnd(text[e])
                    /\ (e < Len(text) => text[e + 1] # ">")
                    /\ (e = s + 1 => text[e] \notin OneChar)}
    IN  IF text[s] \in Schemes /\ (s > 1 => text[s - 1] # "<") /\ ends # {}
        THEN CHOOSE e \in ends : \A f \in ends : f <= e
        ELSE 0

\* The matches of DISCORD_URL_REGEX in the text from place `from` on, left to
\* right and not overlapping, each as <<first place, last place>>.
RECURSIVE Spans(_, _)
Spans(text, from) ==
    IF from > Len(text)
    THEN <<>>
    ELSE LET e == MatchEnd(text, from)
         IN  IF e = 0
             THEN Spans(text, from + 1)
             ELSE <<<<from, e>>>> \o Spans(text, e + 1)

\* DISCORD_URL_REGEX.findall(text)
Findall(text) ==
    LET spans == Spans(text, 1)
    IN  [i \in 1..Len(spans) |-> SubSeq(text, spans[i][1], spans[i][2])]

\* The query string as yarl reads it: the pairs key=value between the "&".
ParseQuery(qs) ==
    IF qs = <<>>
    THEN <<>>
    ELSE LET pairs == Split(qs, "&", Len(qs))
         IN  [i \in 1..Len(pairs) |->
                LET kv == Split(pairs[i], "=", 1)
                IN  <<kv[1], IF Len(kv) = 2 THEN kv[2] ELSE <<>>>>]

\* url.query.get(key): the first value under the key; <<>> stands for None.
QueryGet(query, key) ==
    LET hits == {i \in 1..Len(query) : query[i][1] = key}
    IN  IF hits = {} THEN <<>>
        ELSE query[CHOOSE i \in hits : \A j \in hits : i <= j][2]

\* yarl's URL(match) for a match of the pattern: the host runs to the first
\* "/" or "?", the path from there to the "?", the query after it.  An
\* absent host is <<>>; an absent path is "/".
URL(match) ==
    LET p == First(match, 2, {"/", "?"})
        q == First(match, 2, {"?"})
        path == SubSeq(match, p, q - 1)
    IN  [host |-> SubSeq(match, 2, p - 1),
         path |-> IF path = <<>> THEN <<"/">> ELSE path,
         query |-> ParseQuery(SubSeq(match, q + 1, Len(match)))]

(***************************************************************************)
(* SlopifyCog: what the handlers are given and what the clients answer.    *)
(***************************************************************************)

TrackLink(id) == <<"https://", "open", ".", "spotify.com", "/", "track", "/", id>>

\* message.content of the messages the handlers are given.
Contents ==
    {<<"hello">>,
     TrackLink("trk1"),
     TrackLink("trk1") \o <<"?", "si", "=", "share">>,
     TrackLink("trk1") \o <<" ">> \o TrackLink("trk1"),
     TrackLink("trk1") \o <<" ">> \o TrackLink("trk2"),
     <<"(">> \o TrackLink("trk1") \o <<")", ".">>,
     <<"https://", "open", ".", "spotify.com", "/", "album", "/", "alb1">>,
     <<"https://", "open", ".", "spotify.com">>,
     <<"https://", "not", "spotify.com", "/", "track", "/", "trk1">>,
     <<"https://", "example.org", "/", "track", "/", "trk1">>,
     <<"https://", "youtu.be", "/", "vidX">>,
     <<"https://", "www", ".", "youtube.com", "/", "watch", "?", "v", "=", "vidX">>,
     <<"https://", "www", ".", "youtube.com", "/", "live", "/", "vidX", "/", "chat">>,
     <<"<">> \o TrackLink("trk1") \o <<">">>,
     <<"see", " ", "<">> \o TrackLink("trk1") \o <<">", ",", " ", "ok">>,
     <<"<", "https://", "web.archive.org", "/">> \o TrackLink("trk1") \o <<">">>}

\* message.embeds: none, the link preview of the track, an embed that is not
\* a link preview.
Embeds ==
    {<<>>,
     <<[type |-> "link", provider |-> "Spotify", url |-> TrackLink("trk1")]>>,
     <<[type |-> "rich", provider |-> "Spotify", url |-> TrackLink("trk1")]>>}

\* The `any(...)` of handle_track: a link preview of Spotify whose url holds
\* the track id.
HasPreview(m, track_id) ==
    \E i \in 1..Len(m.embeds) :
        /\ m.embeds[i].type = "link"
        /\ m.embeds[i].provider = "Spotify"
        /\ m.embeds[i].url # <<>>
        /\ Contains(m.embeds[i].url, track_id)

\* The artists of the track records the catalog answers with.
ArtistLists == {<<>>, <<<<"Ann">>, <<"Bob">>>>}
\* The result lists of a video search and of a track search.
VideoResultLists == {<<>>, <<<<"vidY">>, <<"vidX">>>>}
TrackResultLists == {<<>>, <<<<"trk2">>, <<"trk1">>>>}
\* The titles of the video records.
Titles == {<<"Song", " ", "(", "Live", ")">>}

\* What fetch_track_data and search_for of SpotifyAPI raise.
SpotifyErrors ==
    ({CatalogResult(status) : status \in CatalogStatuses}
        \cup {ApplyExchange(None, DatetimeMin, resp, DatetimeMin + 1).raised :
                 resp \in ExchangeResponses}) \ {"ok", None}

\* What search_for of InvidiousAPI raises on an instance.
VideoSearchErrors == {SearchResult(outcome) : outcome \in SearchOutcomes} \ {"ok"}

\* What get_video raises once its request is out.
VideoErrors == {"BadResponseError", "ClientError"}

\* What an awaited call hands back: the exception raised, or the part of the
\* answer the handler reads.
Returned == [raised |-> None, artists |-> <<>>, results |-> <<>>, title |-> <<>>]

Outcomes(pc) ==
    CASE pc \in {"ht_fetch", "cb_fetch", "s2y_fetch"} ->
            {[Returned EXCEPT !.raised = e] : e \in SpotifyErrors}
                \cup {[Returned EXCEPT !.artists = a] : a \in ArtistLists}
      [] pc = "s2y_search" ->
            {[Returned EXCEPT !.raised = e] : e \in VideoSearchErrors}
                \cup {[Returned EXCEPT !.results = r] : r \in VideoResultLists}
      [] pc \in {"cb_video", "y2s_video"} ->
            {[Returned EXCEPT !.raised = e] : e \in VideoErrors}
                \cup {[Returned EXCEPT !.title = t] : t \in Titles}
      [] pc = "y2s_search" ->
            {[Returned EXCEPT !.raised = e] : e \in SpotifyErrors}
                \cup {[Returned EXCEPT !.results = r] : r \in TrackResultLists}
      [] pc = "translate" ->
            {[Returned EXCEPT !.raised = e] : e \in {None, "BadResponseError", "ClientError"}}
      [] OTHER ->
            {[Returned EXCEPT !.raised = e] : e \in {None, "HTTPException"}}

\* cog_load has returned: it returns and never raises, so the cog is added
\* and its listener hears the messages from then on.
CogLoadReturned == nloads > 0 /\ load.pc = "idle"

\* The except clause of cog_load was taken: cog_unload has closed the
\* sessions and taken the context menu off the command tree.
LoadFailed == CogLoadReturned /\ load.result # "ok"

\* A handler: where it is (pc), the matches of the pattern in the message
\* and their places, the matches the loop has yet to see (rest), the track
\* handle_track is at, the track record last fetched, and its history: the
\* links it took for a track or a video, its calls of the clients, the
\* replies and interaction responses it sent, what a search found, what the
\* resolution returned, how the handler ended.
NoData == [id |-> <<>>, name |-> <<>>, artists |-> <<>>]

IdleTask ==
    [pc |-> "idle", handler |-> None, arg |-> <<>>, matches |-> <<>>, spans |-> <<>>,
     rest |-> <<>>, track |-> <<>>, data |-> NoData, classified |-> <<>>,
     calls |-> <<>>, replies |-> <<>>, responses |-> <<>>, found |-> <<>>,
     returned |-> <<>>, result |-> None, done_anything |-> FALSE]

Return(t) == [t EXCEPT !.pc = "idle", !.result = "return"]

Raise(t, exception) == [t EXCEPT !.pc = "idle", !.result = exception]

\* A call of a client's method; `issued`: the client got to issue a request.
ClientCall(api, op, arg, issued) ==
    [api |-> api, op |-> op, arg |-> arg, issued |-> issued]

\* await self.spotify.<op>(arg): on a closed session the first request
\* raises; else the handler waits for the call at `pc`.
AwaitSpotify(t, pc, op, arg) ==
    IF LoadFailed
    THEN Raise([t EXCEPT !.calls = Append(@, ClientCall("spotify", op, arg, FALSE))],
               "RuntimeError: session closed")
    ELSE [t EXCEPT !.pc = pc, !.calls = Append(@, ClientCall("spotify", op, arg, TRUE))]

\* await self.invidious.search_for(query)
AwaitVideoSearch(t, pc, query) ==
    LET url == UrlOr(None, host_url)
    IN  IF url = None
        THEN Raise([t EXCEPT !.calls =
                        Append(@, ClientCall("invidious", "search_for", query, FALSE))],
                   "ValueError: no host")
        ELSE IF LoadFailed
        THEN Raise([t EXCEPT !.calls =
                        Append(@, ClientCall("invidious", "search_for", query, FALSE))],
                   "RuntimeError: session closed")
        ELSE [t EXCEPT !.pc = pc,
                       !.calls = Append(@, ClientCall("invidious", "search_for",
                                                      SearchTarget(url, query).query[1][2],
                                                      TRUE))]

\* await self.invidious.get_video(video_id): get_video up to its first
\* suspension, as Inner has it.
AwaitGetVideo(t, pc, video_id) ==
    LET url == UrlOr(None, host_url)
        rec == Inner([IdleVCall EXCEPT !.op = "get_video", !.arg = video_id, !.url = url])
    IN  IF url = None
        THEN Raise([t EXCEPT !.calls =
                        Append(@, ClientCall("invidious", "get_video", video_id, FALSE))],
                   "ValueError: no host")
        ELSE IF rec.pc = "idle"
        THEN Raise([t EXCEPT !.calls =
                        Append(@, ClientCall("invidious", "get_video", video_id, FALSE))],
                   rec.result)
        ELSE [t EXCEPT !.pc = pc,
                       !.calls = Append(@, ClientCall("invidious", "get_video", video_id, TRUE))]

(***************************************************************************)
(* SlopifyCog: the handlers.                                               *)
(***************************************************************************)

\* The handler takes the match for a link of the kind, with the id.
Classify(t, match, kind, id) ==
    [t EXCEPT !.classified = Append(@, [match |-> match, kind |-> kind, id |-> id])]

\* handle_track up to its suspension.
HandleTrack(t, track_id) ==
    AwaitSpotify([t EXCEPT !.track = track_id], "ht_fetch", "fetch_track_data", track_id)

\* The loop of on_message from the match at the head of `matches` to the next
\* suspension, or to the end of the handler.
RECURSIVE OnMessageLoop(_, _)
OnMessageLoop(t, matches) ==
    IF matches = <<>>
    THEN Return(t)
    ELSE LET match == Head(matches)
             url == URL(match)
         IN  IF url.host = <<>> \/ ~EndsWith(url.host, <<"spotify.com">>)
             THEN OnMessageLoop(t, Tail(matches))
             ELSE IF StartsWith(url.path, <<"/", "track", "/">>)
             THEN LET track_id == Split(url.path, "/", 4)[3]
                  IN  HandleTrack(Classify([t EXCEPT !.rest = Tail(matches)],
                                           match, "track", track_id),
                                  track_id)
             ELSE OnMessageLoop(t, Tail(matches))

\* The loop of embed_track_callback from the match at the head of `matches`
\* to the next suspension, and what follows the loop.
RECURSIVE EmbedTrackLoop(_, _)
EmbedTrackLoop(t, matches) ==
    IF matches = <<>>
    THEN IF t.done_anything
         THEN Return(t)
         ELSE [t EXCEPT !.pc = "notice",
                        !.responses = Append(@, "No Spotify or YouTube links found")]
    ELSE LET match == Head(matches)
             url == URL(match)
             u == [t EXCEPT !.rest = Tail(matches)]
         IN  IF url.host = <<>>
             THEN EmbedTrackLoop(t, Tail(matches))
             ELSE IF EndsWith(url.host, <<"spotify.com">>)
             THEN LET parts == Split(url.path, "/", 4)
                  IN  IF Len(parts) < 3
                      THEN Raise(u, "IndexError")
                      ELSE AwaitSpotify(Classify([u EXCEPT !.track = parts[3]],
                                                 match, "track", parts[3]),
                                        "cb_fetch", "fetch_track_data", parts[3])
             ELSE IF EndsWith(url.host, <<"youtube.com">>) \/ EndsWith(url.host, <<"youtu.be">>)
             THEN LET v == QueryGet(url.query, <<"v">>)
                      parts == Split(url.path, "/", 2)
                      video_id == IF v # <<>> THEN v ELSE parts[Len(parts)]
                  IN  AwaitGetVideo(Classify(u, match, "video", video_id),
                                    "cb_video", video_id)
             ELSE EmbedTrackLoop(t, Tail(matches))

\* The query of spotify_to_yt: f"{name} {' '.join(artist names)}"
VideoQuery(track_data) == track_data.name \o <<" ">> \o Join(track_data.artists, " ")

\* Mutant: an empty result list is reported as a bad response.
FirstHit_EmptyIsBadResponse(results) ==
    IF results = <<>>
    THEN [raised |-> "BadResponseError", id |-> <<>>]
    ELSE [raised |-> None, id |-> <<results[1]>>]

\* search[0]["videoId"] and search["tracks"]["items"][0]["id"]: the id of the
\* first result, or the IndexError of an empty list.
FirstHit(results) ==
    IF results = <<>>
    THEN [raised |-> "IndexError", id |-> <<>>]
    ELSE [raised |-> None, id |-> <<results[1]>>]

\* spotify_to_yt(track_id) up to its suspension.
SpotifyToYtStart(t, track_id) ==
    AwaitSpotify(t, "s2y_fetch", "fetch_track_data", track_id)

\* yt_to_spotify(video_id) up to its suspension.
YtToSpotifyStart(t, video_id) ==
    AwaitGetVideo(t, "y2s_video", video_id)

\* The rest of construct_*_embed once the cross-resolution has returned, up
\* to the suspension in translate.
AwaitTranslate(t) == [t EXCEPT !.pc = "translate"]

\* The embed is built: message.reply for the listener,
\* interaction.response.send_message for the context menu, which answers an
\* interaction once.
SendEmbed(t) ==
    IF t.handler = "on_message"
    THEN [t EXCEPT !.pc = "reply", !.replies = Append(@, t.track)]
    ELSE IF t.responses # <<>>
    THEN Raise(t, "InteractionResponded")
    ELSE [t EXCEPT !.pc = "send", !.responses = Append(@, "embed")]

\* The handler goes on after the call it awaited at t.pc has returned or
\* raised `o`, up to its next suspension or its end.
After(t, m, o) ==
    IF o.raised # None
    THEN Raise(t, o.raised)
    ELSE CASE t.pc = "ht_fetch" ->
                 LET u == [t EXCEPT !.data = [id |-> t.track, name |-> <<"Song">>,
                                              artists |-> o.artists]]
                 IN  IF HasPreview(m, t.track)
                     THEN OnMessageLoop(u, u.rest)
                     ELSE SpotifyToYtStart(u, u.data.id)
           [] t.pc = "cb_fetch" ->
                 LET u == [t EXCEPT !.data = [id |-> t.track, name |-> <<"Song">>,
                                              artists |-> o.artists]]
                 IN  SpotifyToYtStart(u, u.data.id)
           [] t.pc = "s2y_fetch" ->
                 LET u == [t EXCEPT !.data = [id |-> t.calls[Len(t.calls)].arg,
                                              name |-> <<"Song">>,
                                              artists |-> o.artists]]
                 IN  AwaitVideoSearch(u, "s2y_search", VideoQuery(u.data))
           [] t.pc \in {"s2y_search", "y2s_search"} ->
                 LET hit == FirstHit(o.results)
                     u == [t EXCEPT !.found = <<o.results>>]
                 IN  IF hit.raised # None
                     THEN Raise(u, hit.raised)
                     ELSE IF t.handler \in {"spotify_to_yt", "yt_to_spotify"}
                     THEN Return([u EXCEPT !.returned = hit.id])
                     ELSE AwaitTranslate(u)
           [] t.pc = "cb_video" ->
                 YtToSpotifyStart(t, t.calls[Len(t.calls)].arg)
           [] t.pc = "y2s_video" ->
                 AwaitSpotify(t, "y2s_search", "search_for", o.title)
           [] t.pc = "translate" ->
                 SendEmbed(t)
           [] t.pc = "reply" ->
                 OnMessageLoop(t, t.rest)
           [] t.pc = "send" ->
                 EmbedTrackLoop([t EXCEPT !.done_anything = TRUE], t.rest)
           [] OTHER ->
                 Return(t)

\* A message is posted: on_message up to its first suspension.
OnMessage(content, embeds) ==
    /\ task.pc = "idle"
    /\ CogLoadReturned
    /\ message' = [content |-> content, embeds |-> embeds]
    /\ LET matches == Findall(content)
           t == [IdleTask EXCEPT !.handler = "on_message", !.matches = matches,
                                 !.spans = Spans(content, 1)]
       IN  task' = IF matches = <<>> THEN Return(t) ELSE OnMessageLoop(t, matches)
    /\ UNCHANGED <<spotifyVars, invidiousVars>>

\* "Embed Track" is picked on a message: embed_track_callback up to its first
\* suspension.  The context menu is in the command tree until cog_unload.
EmbedTrackCallback(content, embeds) ==
    /\ task.pc = "idle"
    /\ CogLoadReturned
    /\ ~LoadFailed
    /\ message' = [content |-> content, embeds |-> embeds]
    /\ LET t == [IdleTask EXCEPT !.handler = "embed_track_callback",
                                 !.matches = Findall(content),
                                 !.spans = Spans(content, 1)]
       IN  task' = EmbedTrackLoop(t, t.matches)
    /\ UNCHANGED <<spotifyVars, invidiousVars>>

\* spotify_to_yt(track_id), called on its own.
SpotifyToYt(track_id) ==
    /\ task.pc = "idle"
    /\ CogLoadReturned
    /\ ~LoadFailed
    /\ task' = SpotifyToYtStart([IdleTask EXCEPT !.handler = "spotify_to_yt",
                                                 !.arg = track_id],
                                track_id)
    /\ UNCHANGED <<message, spotifyVars, invidiousVars>>

\* yt_to_spotify(video_id), called on its own.
YtToSpotify(video_id) ==
    /\ task.pc = "idle"
    /\ CogLoadReturned
    /\ ~LoadFailed
    /\ task' = YtToSpotifyStart([IdleTask EXCEPT !.handler = "yt_to_spotify",
                                                 !.arg = video_id],
                                video_id)
    /\ UNCHANGED <<message, spotifyVars, invidiousVars>>

\* The call the handler awaits returns or raises.
Resume ==
    /\ task.pc # "idle"
    /\ \E o \in Outcomes(task.pc) : task' = After(task, message, o)
    /\ UNCHANGED <<message, spotifyVars, invidiousVars>>

\* SlopifyCog.__init__, no message seen yet.
CogIdle ==
    /\ message = [content |-> <<>>, embeds |-> <<>>]
    /\ task = IdleTask

\* The cog: cog_load's one call of InvidiousAPI.load, then the handlers, one
\* at a time.
CogNext ==
    \/ nloads = 0 /\ LoadStart
    \/ RegistryResponse
    \/ ProbeResponse
    \/ \E content \in Contents, embeds \in Embeds : OnMessage(content, embeds)
    \/ \E content \in Contents, embeds \in Embeds : EmbedTrackCallback(content, embeds)
    \/ \E track_id \in {<<"trk1">>} : SpotifyToYt(track_id)
    \/ \E video_id \in {<<"vidX">>} : YtToSpotify(video_id)
    \/ Resume

(***************************************************************************)
(* Specifications.                                                         *)
(***************************************************************************)

\* The track-catalog client alone; the video-catalog client is not used.
SpotifyInit ==
    /\ SpotifyIdle
    /\ InvidiousIdle
    /\ CogIdle
    /\ ctor = None
    /\ host_url = None
    /\ registry = <<>>

SpotifySpec == SpotifyInit /\ [][SpotifyNext]_vars

\* Instance selection alone, for every constructor argument and registry.
SelectionInit ==
    /\ SpotifyIdle
    /\ InvidiousIdle
    /\ CogIdle
    /\ ctor \in CtorArgs
    /\ host_url = Construct(ctor)
    /\ registry \in Registries

SelectionSpec == SelectionInit /\ [][SelectionNext]_vars

\* The video-catalog client alone, load and calls, for every constructor
\* argument and every registry of descriptors that pass the filter.
InvidiousInit ==
    /\ SelectionInit
    /\ \A i \in 1..Len(registry) : Viable(registry[i])

InvidiousSpec == InvidiousInit /\ [][InvidiousNext]_vars

\* Both clients in the hands of one coroutine; the video-catalog client is
\* constructed on an instance.
ResolverInit ==
    /\ SelectionInit
    /\ ctor = "https://inv-a"
    /\ registry = <<>>

ResolverSpec == ResolverInit /\ [][ResolverNext]_vars

\* The cog: its InvidiousAPI is constructed without an instance, the registry
\* lists at most one.
CogInit ==
    /\ InvidiousInit
    /\ ctor = None
    /\ Len(registry) <= 1

CogSpec == CogInit /\ [][CogNext]_vars

\* Both clients.
Init == SelectionInit

Next == SpotifyNext \/ InvidiousNext

Spec == Init /\ [][Next]_vars

(***************************************************************************)
(* The token lease.                                                        *)
(***************************************************************************)

\* C1: a track-catalog call that finds the lease's expiresAt more than a
\* minute ahead of now posts nothing to the token endpoint: its first step
\* already issues the catalog request, with token and expiresAt as they were,
\* and the call never posts later either.
C1_FreshLeaseNoExchange ==
    /\ [](\A c \in Slots : call[c].startFresh => call[c].posts = 0)
    /\ [][\A c \in Slots :
            (call[c].pc = "idle" /\ call'[c] # call[c] /\ expiresAt > now + Minute)
                => /\ call'[c].posts = 0
                   /\ call'[c].pc = "catalog_wait"
                   /\ token' = token
                   /\ expiresAt' = expiresAt]_vars

\* A call that found a fresh lease has its catalog request in flight.
C1_Witness ==
    \E c \in Slots :
        call[c].startFresh /\ call[c].pc = "catalog_wait" /\ call[c].posts = 0

\* C2: a track-catalog call that finds expiresAt in the past or at most a
\* minute ahead of now (the initial lease and expiresAt = now + 1 minute
\* included) posts exactly once to the token endpoint, and its catalog request
\* is issued only after that exchange has been answered with a grant.
C2_StaleLeaseOneExchange ==
    \A c \in Slots :
        (call[c].op # None /\ ~call[c].startFresh)
            => /\ call[c].posts = 1
               /\ call[c].gets <= 1
               /\ call[c].gets = 1 => (call[c].exchanged /\ call[c].answer = "ok")

\* A call that found expiresAt = now + 1 minute has exchanged and has its
\* catalog request in flight.
C2_Witness ==
    \E c \in Slots :
        call[c].startEdge /\ call[c].pc = "catalog_wait" /\ call[c].posts = 1

\* C7: when the token endpoint answers invalid_client, the call ends with the
\* misconfiguration error after its one post, without a catalog request, and
\* the step that handles the answer leaves token and expiresAt as they were.
C7_InvalidClientFatal ==
    /\ [](\A c \in Slots :
            call[c].answer = "invalid_client"
                => /\ call[c].pc = "idle"
                   /\ call[c].result = "ValueError: invalid client"
                   /\ call[c].posts = 1
                   /\ call[c].gets = 0)
    /\ [][\A c \in Slots :
            (call[c].pc = "token_wait" /\ call'[c].answer = "invalid_client")
                => (token' = token /\ expiresAt' = expiresAt)]_vars

\* An invalid_client answer arrived while the lease held a token.
C7_Witness ==
    \E c \in Slots : call[c].answer = "invalid_client" /\ token # None

\* C8: a call answered 401 ends with BadResponseError after its one catalog
\* request, and the call that follows it exchanges credentials before its own
\* catalog request.
C8_RefreshAfter401 ==
    \A c \in Slots :
        /\ call[c].result = "BadResponseError: invalid token"
              => (call[c].pc = "idle" /\ call[c].gets = 1)
        /\ (call[c].after401 /\ call[c].gets >= 1)
              => (call[c].posts = 1 /\ call[c].exchanged)

C21_ExchangesRace ==
    /\ [][\A c \in Slots :
            (call[c].pc = "idle" /\ call'[c] # call[c] /\ ~(expiresAt > now + Minute))
                => (call'[c].pc = "token_wait" /\ call'[c].posts = 1)]_vars
    /\ [][\A c \in Slots :
            (call[c].pc = "token_wait" /\ call'[c].answer = "ok")
                => /\ token' = granted'.access_token
                   /\ expiresAt' = granted'.expiresAt
                   /\ call'[c].exchanged]_vars

\* Two calls found the lease stale and the exchanges of both are in flight.
C21_Witness ==
    \E c \in Slots, d \in Slots :
        /\ c # d
        /\ call[c].pc = "token_wait"
        /\ call[d].pc = "token_wait"
        /\ ~call[c].startFresh
        /\ ~call[d].startFresh

\* C22: the step that handles the answer of an exchange either takes a grant,
\* and then token and expiresAt are both those of that grant, or ends the call
\* with an error and leaves token and expiresAt as they were; so the two are
\* those of one grant, or both as constructed.
C22_LeaseFromOneResponse ==
    /\ [](\/ (token = None /\ expiresAt = DatetimeMin)
          \/ (token = granted.access_token /\ expiresAt = granted.expiresAt))
    /\ [][\A c \in Slots :
            (call[c].pc = "token_wait" /\ call'[c].pc # "token_wait")
                => IF call'[c].exchanged
                   THEN token' = granted'.access_token /\ expiresAt' = granted'.expiresAt
                   ELSE token' = token /\ expiresAt' = expiresAt]_vars

(***************************************************************************)
(* Instance selection and the video-catalog calls.                         *)
(***************************************************************************)

\* C3: when find_best_host ends, the probes it made are those of the filtered
\* list in order; if one succeeded it is the last one made, the only one that
\* succeeded, and its candidate is the instance returned; if none succeeded
\* every candidate was probed (or there was none) and the RuntimeError is
\* raised with no instance held.
C3_FirstViableSelected ==
    (load.pc = "idle" /\ pass.gets > 0 /\ load.result \in {"ok", "RuntimeError"})
        => LET n == Len(pass.probes)
           IN  /\ n <= Len(pass.filtered)
               /\ \A i \in 1..n : pass.probes[i].host = pass.filtered[i]
               /\ IF \E i \in 1..n : pass.probes[i].outcome = "ok"
                  THEN /\ load.result = "ok"
                       /\ pass.probes[n].outcome = "ok"
                       /\ \A i \in 1..(n - 1) : pass.probes[i].outcome # "ok"
                       /\ host_url = pass.filtered[n]
                  ELSE /\ load.result = "RuntimeError"
                       /\ n = Len(pass.filtered)
                       /\ host_url = None

\* The first candidate's probe failed and the second candidate was selected.
C3_Witness ==
    /\ load.pc = "idle"
    /\ load.result = "ok"
    /\ Len(pass.probes) = 2
    /\ pass.probes[1].outcome # "ok"
    /\ host_url = pass.filtered[2]

\* C11: once the registry has answered, the candidates of the pass are the
\* descriptors with stats not null, api set, type "https" and a non-empty uri,
\* in the registry's order, and nothing else; a descriptor that fails one of
\* the four raises nothing (the pass ends with an instance or with the
\* RuntimeError of an exhausted list) and is not among the probed candidates.
C11_FilterKeepsViable ==
    (pass.gets > 0 /\ load.pc # "registry_wait" /\ load.result # "ClientError")
        => LET keep(e) == e.stats # None /\ e.api /\ e.type = "https" /\ e.uri # ""
               kept == SelectSeq(registry, keep)
           IN  /\ Len(pass.filtered) = Len(kept)
               /\ \A i \in 1..Len(kept) : pass.filtered[i] = kept[i].uri
               /\ Len(pass.probes) <= Len(kept)
               /\ \A i \in 1..Len(pass.probes) : pass.probes[i].host = kept[i].uri
               /\ load.pc = "idle" => load.result \in {"ok", "RuntimeError"}

\* A registry of a descriptor that is not https followed by a usable one: the
\* one candidate was probed and selected.
C11_Witness ==
    /\ Len(registry) = 2
    /\ registry[1].type # "https"
    /\ registry[2].uri = "https://inv-b"
    /\ pass.filtered = <<"https://inv-b">>
    /\ Len(pass.probes) = 1
    /\ host_url = "https://inv-b"

\* C19: all along a selection pass the probes made are those of the first
\* candidates in order, one each; every probe but the last one made has
\* failed, a probe that succeeded ends the pass, the probe in flight is that
\* of the next candidate, and a step adds at most the next candidate's probe.
C19_ProbedOnceInOrder ==
    /\ [](/\ Len(pass.probes) <= Len(pass.filtered)
          /\ \A i \in 1..Len(pass.probes) :
                /\ pass.probes[i].host = pass.filtered[i]
                /\ i < Len(pass.probes) => pass.probes[i].outcome # "ok"
          /\ load.pc = "probe_wait"
                => /\ Len(pass.probes) < Len(pass.filtered)
                   /\ load.candidate = pass.filtered[Len(pass.probes) + 1]
                   /\ \A i \in 1..Len(pass.probes) : pass.probes[i].outcome # "ok")
    /\ [][pass'.gets = pass.gets
            => \/ pass'.probes = pass.probes
               \/ /\ load.pc = "probe_wait"
                  /\ Len(pass'.probes) = Len(pass.probes) + 1
                  /\ SubSeq(pass'.probes, 1, Len(pass.probes)) = pass.probes]_vars

\* The first candidate failed its probe and the second one's is in flight.
C19_Witness ==
    /\ load.pc = "probe_wait"
    /\ Len(pass.probes) = 1
    /\ pass.probes[1].outcome = "transport"
    /\ Len(pass.filtered) = 2
    /\ load.candidate = pass.filtered[2]

\* C20: a step taken while host_url holds an instance leaves host_url as it
\* is, whatever the step: a load, a call with or without a host_url of its
\* own, an answer, a failure.
C20_HostUrlNeverReplaced ==
    [][host_url # None => host_url' = host_url]_vars

\* With the instance held, load was called again and a call on another
\* instance has failed.
C20_Witness ==
    /\ host_url # None
    /\ nloads = 2
    /\ vcall.override \notin {None, host_url}
    /\ vcall.result \in {"BadResponseError", "ClientError", "ValueError: path"}

\* C12: the request of get_audio_url names the itag of an audio format that
\* no audio format of the video exceeds in bitrate and no earlier audio format
\* equals; a video without audio formats gets no request and the call fails.
C12_BestAudioFirstOfTies ==
    (vcall.op = "get_audio_url" /\ vcall.url # None)
        => LET formats == AdaptiveFormats[vcall.arg]
               audio(k) == formats[k].type[1] = "audio"
           IN  IF \E k \in 1..Len(formats) : audio(k)
               THEN /\ Len(vcall.requests) = 1
                    /\ \E k \in 1..Len(formats) :
                          /\ audio(k)
                          /\ \A j \in 1..Len(formats) :
                                audio(j) => formats[j].bitrate <= formats[k].bitrate
                          /\ \A j \in 1..(k - 1) :
                                audio(j) => formats[j].bitrate < formats[k].bitrate
                          /\ vcall.requests[1].query =
                                <<<<"id", vcall.arg>>, <<"itag", formats[k].itag>>,
                                  <<"local", "true">>>>
               ELSE /\ vcall.requests = <<>>
                    /\ vcall.pc = "idle"
                    /\ vcall.result = "ValueError: max of empty"

\* The request for a video whose two best audio formats tie is in flight,
\* and it names the first of them.
C12_Witness ==
    /\ vcall.op = "get_audio_url"
    /\ vcall.arg = "vidW"
    /\ vcall.pc = "audio_wait"
    /\ vcall.requests[1].query[2] = <<"itag", "140">>

\* C4: get_video on an instance, told [error body, record], returns the
\* record after two attempts; told [error body, error body], raises
\* BadResponseError after two attempts; and never makes a third.
C4_RetryOnce ==
    (vcall.op = "get_video" /\ vcall.pc = "idle" /\ vcall.url # None)
        => /\ vcall.attempts <= 2
           /\ vcall.script = <<"error_body", "ok">>
                 => (vcall.result = "ok" /\ vcall.attempts = 2)
           /\ vcall.script = <<"error_body", "error_body">>
                 => (vcall.result = "BadResponseError" /\ vcall.attempts = 2)

\* C5: get_video(id) on an instance makes its first attempt, and every
\* request it makes is for /api/v1/videos/<id> on that instance.
C5_RequestsTheGivenId ==
    (vcall.op = "get_video" /\ vcall.url # None)
        => /\ vcall.attempts >= 1
           /\ \A i \in 1..Len(vcall.requests) :
                 /\ vcall.requests[i].host = vcall.url
                 /\ vcall.requests[i].path = <<"api", "v1", "videos", vcall.arg>>

\* C6 as stated: a client constructed on an instance never asks the registry
\* and never probes, and every call it makes afterwards goes to that instance.
C6_EveryCallOnFixedInstance ==
    ctor \in Hosts
        => /\ pass.gets = 0
           /\ pass.probes = <<>>
           /\ load.pc = "idle"
           /\ host_url = ctor
           /\ vcall.op # None
                 => /\ vcall.url = ctor
                    /\ \A i \in 1..Len(vcall.requests) : vcall.requests[i].host = ctor

\* C6, amended: a client constructed on an instance never asks the registry
\* and never probes, load or no load; it holds that instance ever after, and
\* every call that is not given a host_url of its own sends its request there.
C6_FixedInstanceUsed ==
    ctor \in Hosts
        => /\ pass.gets = 0
           /\ pass.probes = <<>>
           /\ load.pc = "idle"
           /\ host_url = ctor
           /\ (vcall.op # None /\ vcall.override = None)
                 => /\ vcall.url = ctor
                    /\ \A i \in 1..Len(vcall.requests) : vcall.requests[i].host = ctor

\* Constructed on an instance and loaded, the client has a search in flight.
C6_Witness ==
    /\ ctor \in Hosts
    /\ nloads >= 1
    /\ vcall.pc = "search_wait"
    /\ vcall.override = None

(***************************************************************************)
(* Failures.                                                               *)
(***************************************************************************)

\* C9: no request is issued again after it failed, but for get_video after an
\* error body: a call posts to the token endpoint at most once and asks the
\* catalog at most once, a failed exchange ends the call at once, and a
\* failed catalog request ends it after that one request; search_for and
\* get_audio_url make at most one request; get_video makes at most two, the
\* second only after the first was answered with an error body.
C9_NoOtherRetry ==
    /\ \A c \in Slots :
          /\ call[c].posts <= 1
          /\ call[c].gets <= 1
          /\ call[c].answer \notin {None, "ok"}
                => /\ call[c].pc = "idle"
                   /\ call[c].result \notin {None, "ok"}
                   /\ call[c].posts = 1
                   /\ call[c].gets = 0
          /\ (call[c].pc = "idle" /\ call[c].gets >= 1) => call[c].result # None
    /\ vcall.op \in {"search_for", "get_audio_url"}
          => (vcall.attempts <= 1 /\ Len(vcall.requests) <= 1)
    /\ vcall.op = "get_video"
          => /\ Len(vcall.requests) <= 2
             /\ \A i \in 1..(Len(vcall.requests) - 1) : vcall.script[i] = "error_body"
    /\ (vcall.pc = "idle" /\ vcall.op # None) => vcall.result # None

\* A failed exchange and a failed audio request have both reached the caller.
C9_Witness ==
    /\ call["c1"].answer = "transport"
    /\ call["c1"].result = "ClientError"
    /\ vcall.op = "get_audio_url"
    /\ vcall.result = "BadResponseError"
    /\ Len(vcall.requests) = 1

(***************************************************************************)
(* The cog: links, cross-resolution, startup.                              *)
(***************************************************************************)

\* C13: when the search of a cross-resolution finds nothing, the resolution
\* ends in an error that is none of those a bad upstream response or a
\* transport failure end it in, and no id is returned.
C13_EmptySearchIsNotFound ==
    task.found = <<<<>>>>
        => /\ task.pc = "idle"
           /\ task.result \notin {None, "return"}
           /\ task.result \notin SpotifyErrors \cup VideoSearchErrors \cup VideoErrors
           /\ task.returned = <<>>

\* spotify_to_yt has fetched the track, searched, found nothing and raised.
C13_Witness ==
    /\ task.handler = "spotify_to_yt"
    /\ Len(task.calls) = 2
    /\ task.found = <<<<>>>>
    /\ task.result = "IndexError"

\* C14: spotify_to_yt that returns has fetched the track, searched the videos
\* once for the title followed by the artists' names in their order, spaces
\* between, and returns the first result's id; yt_to_spotify requests the
\* video, and when it returns it has searched the tracks once for the title
\* and returns the first result's id.
C14_FirstHitTrusted ==
    /\ (task.handler = "spotify_to_yt" /\ task.pc = "idle" /\ task.result = "return")
          => /\ Len(task.calls) = 2
             /\ task.calls[1] = ClientCall("spotify", "fetch_track_data", task.arg, TRUE)
             /\ task.calls[2] =
                   ClientCall("invidious", "search_for",
                              task.data.name \o <<" ">> \o Join(task.data.artists, " "),
                              TRUE)
             /\ task.returned = <<task.found[1][1]>>
    /\ task.handler = "yt_to_spotify"
          => /\ task.calls[1] = ClientCall("invidious", "get_video", task.arg, TRUE)
             /\ (task.pc = "idle" /\ task.result = "return")
                   => /\ Len(task.calls) = 2
                      /\ task.calls[2].op = "search_for"
                      /\ task.calls[2].api = "spotify"
                      /\ task.returned = <<task.found[1][1]>>

\* C15: a match the listener or the context menu takes for a track link has
\* a host that ends with spotify.com and a path that begins with /track/, and
\* the id is the path segment after /track/; a match taken for a video link
\* has a host that ends with youtube.com or youtu.be, and the id is the v
\* parameter or, without one, the last segment of the path; and a handler
\* that took no match for a link has called no client.
C15_LinksClassified ==
    task.handler \in {"on_message", "embed_track_callback"}
        => /\ \A i \in 1..Len(task.classified) :
                 LET c == task.classified[i]
                     url == URL(c.match)
                     segments == Split(url.path, "/", Len(url.path))
                     v == QueryGet(url.query, <<"v">>)
                 IN  /\ c.kind = "track"
                          => /\ EndsWith(url.host, <<"spotify.com">>)
                             /\ StartsWith(url.path, <<"/", "track", "/">>)
                             /\ c.id = segments[3]
                     /\ c.kind = "video"
                          => /\ \/ EndsWith(url.host, <<"youtube.com">>)
                                \/ EndsWith(url.host, <<"youtu.be">>)
                             /\ c.id = IF v # <<>> THEN v ELSE segments[Len(segments)]
           /\ task.classified = <<>> => task.calls = <<>>

\* C16: where the message holds "<", a URL, ">", no match of the pattern
\* takes anything of what stands between the brackets.
C16_WrappedUrlNotMatched ==
    task.handler \in {"on_message", "embed_track_callback"}
        => \A a \in 1..Len(message.content), b \in 1..Len(message.content) :
              (/\ a + 1 < b
               /\ message.content[a] = "<"
               /\ message.content[a + 1] \in Schemes
               /\ message.content[b] = ">"
               /\ \A k \in (a + 1)..(b - 1) : message.content[k] \notin {" ", "<", ">"})
                  => \A i \in 1..Len(task.spans) :
                        task.spans[i][2] <= a \/ task.spans[i][1] >= b

\* C17: the listener replies at most once for a track id, never for a track
\* whose link preview the message already has, and, when it gets to its end,
\* has replied for every track link of the message without one.
C17_OneReplyPerTrack ==
    task.handler = "on_message"
        => /\ \A i \in 1..Len(task.replies), j \in 1..Len(task.replies) :
                 i # j => task.replies[i] # task.replies[j]
           /\ \A i \in 1..Len(task.replies) : ~HasPreview(message, task.replies[i])
           /\ (task.pc = "idle" /\ task.result = "return")
                 => \A i \in 1..Len(task.classified) :
                       ~HasPreview(message, task.classified[i].id)
                           => \E j \in 1..Len(task.replies) :
                                 task.replies[j] = task.classified[i].id

\* C18: once find_best_host has raised its RuntimeError under cog_load, no
\* handler of the cog runs and no client call of the cog issues a request.
C18_FailedLoadAbortsStartup ==
    (nloads > 0 /\ load.pc = "idle" /\ load.result = "RuntimeError")
        => /\ task.handler = None
           /\ \A i \in 1..Len(task.calls) : ~task.calls[i].issued

====
